---- MODULE Spec2Model ----
(***************************************************************************)
(* BagBot: pre-trade checklist (RiskGate), sell pipelines (TxExecutor),    *)
(* and position tools (PositionLedger), modelled from the scripts.         *)
(*                                                                         *)
(* Units.  SOL amounts are in hundredths of a SOL (0.25 SOL = 25).         *)
(* Percentages of price change are whole percents.  Price impact is in     *)
(* hundredths of a percent (0.3% = 30, 5% = 500).  USD amounts are whole   *)
(* dollars.  A ratio buys/sells is never formed: every comparison          *)
(* buys/sells < p/q is written q*buys < p*sells.                           *)
(***************************************************************************)
EXTENDS Integers, Sequences, FiniteSets, TLC

VARIABLES
    \* ---- pre-trade checklist (trade-checklist-v2, trade-checklist) ----
    mint,         \* the mint argument: [endsBags : BOOLEAN]
    market,       \* what DexScreener answers for the mint: a pair record or NoData
    devInfo,      \* what verifyDev returns: [verified : BOOLEAN]
    entryAmount,  \* parsed amount argument (hundredths of SOL, or NaN)
    hour,         \* wall-clock hour (PST) when the checklist is evaluated
    version,      \* which checklist ran: "none" | "v1" | "v2"
    gatePc,       \* "idle" | "done" | "aborted"
    checks,       \* the checks array built by runChecklist
    verdict,      \* "NONE" | "ALLOW" | "WARN" | "BLOCK" (the summary line printed)
    \* ---- sell pipelines ----
    run,          \* the running sell program: see NoRun for its fields
    \* ---- position tools (liquidity-check, position value tracker) ----
    watchlist,    \* data/watchlist.json: the sequence of open positions
    feeds,        \* per position, what the market-data and quote services answer
    book,         \* the running position tool: see NoBook for its fields
    \* ---- the wallet's token account of the position the take-profit script sells ----
    chain,        \* [balance : tokens held on chain, sold : amounts of the sales executed]
    \* ---- creator verification (verifyDev, dev-checker) ----
    creators,     \* what the Bags services hold as the creators of the mint
    dev,          \* the creator verification that ran: see NoDev for its fields
    \* ---- performance analyzer ----
    closed,       \* data/watchlist.json: the sequence of closed trades
    perf          \* the analyzer's run and the statistics it returned: see NoPerf

gateVars == <<mint, market, devInfo, entryAmount, hour, version, gatePc, checks, verdict>>
execVars == <<run>>
bookVars == <<watchlist, feeds, book>>
chainVars == <<chain>>
devVars == <<creators, dev>>
perfVars == <<closed, perf>>
vars == <<gateVars, execVars, bookVars, chainVars, devVars, perfVars>>

(***************************************************************************)
(* Pre-trade checklist V2                                                  *)
(***************************************************************************)

NaN == -1

\* JS comparisons: every comparison with NaN is false.
NumGE(a, b) == a # NaN /\ a >= b
NumLE(a, b) == a # NaN /\ a <= b
NumLT(a, b) == a # NaN /\ a < b
NumGT(a, b) == a # NaN /\ a > b

NoData == [kind |-> "null"]

Txns(b, s) == [buys |-> b, sells |-> s]

\* Snapshots DexScreener may answer with (getTokenData's non-null results).  The
\* first value of each field is the one of a healthy token.  ageH is the pool age
\* in hours at the time of the evaluation, (Date.now() - pairCreatedAt) / 3600000.
H24Txns == {Txns(10, 10), Txns(12, 0), Txns(2, 5)}
H1Txns  == {Txns(10, 10), Txns(2, 5)}
M5Txns  == {Txns(10, 10), Txns(3, 4), Txns(2, 5)}
H1Changes  == {0, 60, 150}
H24Changes == {0, 400, 600}
M5Changes  == {0, -7, -12}
VolMcaps   == {<<20000, 10000>>, <<6000, 20000>>, <<1000, 20000>>}
DexIds     == {"bags", "raydium"}
Ages       == {30, 10, 3}

Healthy ==
    [kind |-> "pair", dexId |-> "bags", h1 |-> 0, h24 |-> 0, m5 |-> 0,
     txH24 |-> Txns(10, 10), txH1 |-> Txns(10, 10), txM5 |-> Txns(10, 10),
     volH24 |-> 20000, mcap |-> 10000, ageH |-> 30]

AllPairs ==
    { [kind |-> "pair", dexId |-> d, h1 |-> c1, h24 |-> c24, m5 |-> c5,
       txH24 |-> t24, txH1 |-> t1, txM5 |-> t5, volH24 |-> vm[1], mcap |-> vm[2],
       ageH |-> ag] :
        d \in DexIds, c1 \in H1Changes, c24 \in H24Changes, c5 \in M5Changes,
        t24 \in H24Txns, t1 \in H1Txns, t5 \in M5Txns, vm \in VolMcaps, ag \in Ages }

\* Number of fields in which a snapshot differs from the healthy one.
Deviations(p) ==
    Cardinality({f \in {"dexId", "h1", "h24", "m5", "txH24", "txH1", "txM5", "ageH"} :
                    p[f] # Healthy[f]})
    + (IF <<p.volH24, p.mcap>> # <<Healthy.volH24, Healthy.mcap>> THEN 1 ELSE 0)

MaxDeviations == 2

Pairs == {p \in AllPairs : Deviations(p) <= MaxDeviations}

Hours == {8, 12}

\* main: amount = args[1] ? parseFloat(args[1]) : 0.25.  parseFloat reads the
\* longest numeric prefix and gives NaN when there is none.
AmountArgs == {"", "0.1", "0.2", "1.0", "1.5", "abc", "0.5abc"}

parseFloat(a) ==
    CASE a = "0.1"    -> 10
      [] a = "0.2"    -> 20
      [] a = "1.0"    -> 100
      [] a = "1.5"    -> 150
      [] a = "0.5abc" -> 50
      [] OTHER        -> NaN

ParseAmount(a) == IF a # "" THEN parseFloat(a) ELSE 25

Amounts == {ParseAmount(a) : a \in AmountArgs}

Check(n, st, ic, cr) == [name |-> n, status |-> st, icon |-> ic, critical |-> cr]

\* x.sells > 0 ? x.buys / x.sells : x.buys, compared with p/q
RatioGT(x, p, q) == IF x.sells > 0 THEN q * x.buys > p * x.sells ELSE q * x.buys > p
RatioLT(x, p, q) == IF x.sells > 0 THEN q * x.buys < p * x.sells ELSE q * x.buys < p

\* Mutant: either condition alone is taken for a dump.
isActiveDumpEither(txns, change) ==
    IF RatioLT(txns, 1, 2) \/ change < -5 THEN "dump"
    ELSE IF RatioLT(txns, 4, 5) /\ change < -10 THEN "pressure"
    ELSE "none"

\* isActiveDump: "dump" (message with the cross), "pressure" (warning), "none"
isActiveDump(txns, change) ==
    IF RatioLT(txns, 1, 2) /\ change < -5 THEN "dump"
    ELSE IF RatioLT(txns, 4, 5) /\ change < -10 THEN "pressure"
    ELSE "none"

CheckBags(m, t) ==
    LET isBags == t.dexId = "bags" \/ m.endsBags
    IN  Check("BAGS Ecosystem", isBags, IF isBags THEN "ok" ELSE "cross", TRUE)

\* Mutant: a failed verification is a warning.
CheckDevNonCritical(d) ==
    Check("Dev Verification", d.verified, IF d.verified THEN "ok" ELSE "cross", FALSE)

CheckDev(d) ==
    Check("Dev Verification", d.verified, IF d.verified THEN "ok" ELSE "cross", TRUE)

CheckH1Pump(t) ==
    LET h1Pump == t.h1 > 100
    IN  Check("H1 Pump Check", ~h1Pump,
              IF h1Pump THEN "cross" ELSE IF t.h1 > 50 THEN "warn" ELSE "ok",
              h1Pump)

CheckRatio(t, d) ==
    LET ratioTrap    == RatioGT(t.txH24, 10, 1) /\ ~d.verified
        ratioBearish == RatioLT(t.txH1, 1, 2)
    IN  Check("Buy/Sell Ratio", ~ratioTrap /\ ~ratioBearish,
              IF ratioTrap THEN "cross" ELSE IF ratioBearish THEN "warn" ELSE "ok",
              ratioTrap)

CheckM5(t) ==
    LET dump == isActiveDump(t.txM5, t.m5)
    IN  Check("M5 Momentum", dump = "none",
              CASE dump = "dump" -> "cross" [] dump = "pressure" -> "warn"
                [] OTHER -> "ok",
              dump = "dump")

CheckVolume(t) ==
    LET volumeOk == t.volH24 >= 5000
    IN  Check("Volume", volumeOk, IF volumeOk THEN "ok" ELSE "warn", FALSE)

\* volMcapRatio = mcap > 0 ? vol / mcap : 0 ; status = ratio > 0.5
CheckVolMcap(t) ==
    LET healthy == t.mcap > 0 /\ 2 * t.volH24 > t.mcap
    IN  Check("Vol/MCap", healthy, IF healthy THEN "ok" ELSE "warn", FALSE)

\* Mutant: the bounds are tested by negated comparisons, which NaN passes.
CheckSizeNegated(a) ==
    LET sizeOk == ~NumLT(a, 20) /\ ~NumGT(a, 100)
    IN  Check("Position Size", sizeOk,
              IF NumLT(a, 20) \/ NumGT(a, 100) THEN "cross" ELSE "ok",
              ~sizeOk)

CheckSize(a) ==
    LET sizeOk == NumGE(a, 20) /\ NumLE(a, 100)
    IN  Check("Position Size", sizeOk,
              IF NumLT(a, 20) \/ NumGT(a, 100) THEN "cross" ELSE "ok",
              ~sizeOk)

CheckH24Pump(t) ==
    LET h24Pump == t.h24 > 300
    IN  Check("H24 Pump Check", ~h24Pump, IF h24Pump THEN "warn" ELSE "ok", FALSE)

ChecksV2(m, t, d, a) ==
    << CheckBags(m, t), CheckDev(d), CheckH1Pump(t), CheckRatio(t, d), CheckM5(t),
       CheckVolume(t), CheckVolMcap(t), CheckSize(a), CheckH24Pump(t) >>

\* The summary loop: counts of failing critical and failing non-critical checks.
CountIf(cs, P(_)) == Cardinality({k \in 1..Len(cs) : P(cs[k])})

IsCriticalFail(c) == ~c.status /\ c.critical
IsWarning(c)      == ~c.status /\ ~c.critical

\* Mutant: the warning count is tested before the critical count.
SummaryV2WarnFirst(cs) ==
    LET criticalFails == CountIf(cs, IsCriticalFail)
        warnings      == CountIf(cs, IsWarning)
    IN  IF warnings > 0 THEN "WARN"
        ELSE IF criticalFails > 0 THEN "BLOCK"
        ELSE "ALLOW"

SummaryV2(cs) ==
    LET criticalFails == CountIf(cs, IsCriticalFail)
        warnings      == CountIf(cs, IsWarning)
    IN  IF criticalFails > 0 THEN "BLOCK"
        ELSE IF warnings > 0 THEN "WARN"
        ELSE "ALLOW"

(***************************************************************************)
(* Pre-trade checklist, legacy version (no severity field: the summary     *)
(* classifies a check by the icon its message starts with)                 *)
(***************************************************************************)

CheckV1(n, st, ic) == [name |-> n, status |-> st, icon |-> ic]

isTradinghours(h) == ~(h < 9 \/ h >= 22)

CheckHoursV1(h) ==
    CheckV1("Trading Hours", isTradinghours(h), IF isTradinghours(h) THEN "ok" ELSE "cross")

CheckBagsV1(m, t) ==
    LET isBags == t.dexId = "bags" \/ m.endsBags
    IN  CheckV1("BAGS Ecosystem", isBags, IF isBags THEN "ok" ELSE "cross")

CheckAgeV1(m, t) ==
    LET isBags == t.dexId = "bags" \/ m.endsBags
        ageOk  == isBags \/ t.ageH >= 24
    IN  CheckV1("Pool Age", ageOk \/ t.ageH >= 6,
                IF t.ageH >= 24 THEN "ok" ELSE IF t.ageH >= 6 THEN "warn" ELSE "cross")

CheckVolumeV1(t) ==
    LET volumeOk == t.volH24 >= 10000
    IN  CheckV1("Volume", volumeOk, IF volumeOk THEN "ok" ELSE "warn")

CheckRatioV1(t) ==
    LET ratioOk == ~RatioLT(t.txH24, 1, 1) /\ ~RatioGT(t.txH24, 10, 1)
    IN  CheckV1("Buy/Sell Ratio", ratioOk,
                IF RatioGT(t.txH24, 10, 1) THEN "cross"
                ELSE IF ~RatioLT(t.txH24, 1, 1) THEN "ok" ELSE "warn")

\* volMcapRatio = mcap > 0 ? vol / mcap : 0 ; impactOk = ratio > 0.1
CheckLiquidityV1(t) ==
    LET impactOk == t.mcap > 0 /\ 10 * t.volH24 > t.mcap
    IN  CheckV1("Liquidity Estimate", impactOk, IF impactOk THEN "ok" ELSE "warn")

CheckPumpV1(t) ==
    LET isChasing == t.h24 > 500
    IN  CheckV1("Pump Check", ~isChasing,
                IF isChasing THEN "cross" ELSE IF t.h24 > 200 THEN "warn" ELSE "ok")

CheckSizeV1(a) ==
    LET sizeOk == NumGE(a, 20) /\ NumLE(a, 100)
    IN  CheckV1("Position Size", sizeOk,
                IF NumLT(a, 20) \/ NumGT(a, 100) THEN "cross" ELSE "ok")

\* Trading Hours is pushed before the fetch; the others after it.
ChecksV1(h, m, t, a) ==
    << CheckHoursV1(h), CheckBagsV1(m, t), CheckAgeV1(m, t), CheckVolumeV1(t),
       CheckRatioV1(t), CheckLiquidityV1(t), CheckPumpV1(t), CheckSizeV1(a) >>

IsFailV1(c) == ~c.status /\ c.icon # "warn"
IsWarnV1(c) == c.icon = "warn"

SummaryV1(cs) ==
    LET failCount == CountIf(cs, IsFailV1)
        warnCount == CountIf(cs, IsWarnV1)
    IN  IF failCount > 0 THEN "BLOCK"
        ELSE IF warnCount > 0 THEN "WARN"
        ELSE "ALLOW"

(***************************************************************************)
(* The checklist programs                                                  *)
(***************************************************************************)

GateInit ==
    /\ mint \in [endsBags : BOOLEAN]
    /\ market \in Pairs \cup {NoData}
    /\ devInfo \in [verified : BOOLEAN]
    /\ entryAmount \in Amounts
    /\ hour \in Hours
    /\ version = "none"
    /\ gatePc = "idle"
    /\ checks = << >>
    /\ verdict = "NONE"

\* Mutant: without token data the checklist goes on with the checks that
\* need none of it.
RunChecklistV2NoAbort ==
    /\ gatePc = "idle"
    /\ version' = "v2"
    /\ checks' = IF market = NoData
                 THEN << CheckDev(devInfo), CheckSize(entryAmount) >>
                 ELSE ChecksV2(mint, market, devInfo, entryAmount)
    /\ verdict' = SummaryV2(checks')
    /\ gatePc' = "done"
    /\ UNCHANGED <<mint, market, devInfo, entryAmount, hour, execVars, bookVars, chainVars, devVars, perfVars>>

\* runChecklist of trade-checklist-v2: token and devInfo are awaited together;
\* without token data it returns before any check is pushed.
RunChecklistV2 ==
    /\ gatePc = "idle"
    /\ version' = "v2"
    /\ IF market = NoData
       THEN /\ gatePc' = "aborted"
            /\ UNCHANGED <<checks, verdict>>
       ELSE /\ checks' = ChecksV2(mint, market, devInfo, entryAmount)
            /\ verdict' = SummaryV2(checks')
            /\ gatePc' = "done"
    /\ UNCHANGED <<mint, market, devInfo, entryAmount, hour, execVars, bookVars, chainVars, devVars, perfVars>>

\* runChecklist of trade-checklist (legacy)
RunChecklistV1 ==
    /\ gatePc = "idle"
    /\ version' = "v1"
    /\ IF market = NoData
       THEN /\ gatePc' = "aborted"
            /\ checks' = << CheckHoursV1(hour) >>
            /\ UNCHANGED verdict
       ELSE /\ checks' = ChecksV1(hour, mint, market, entryAmount)
            /\ verdict' = SummaryV1(checks')
            /\ gatePc' = "done"
    /\ UNCHANGED <<mint, market, devInfo, entryAmount, hour, execVars, bookVars, chainVars, devVars, perfVars>>

GateNext == RunChecklistV2 \/ RunChecklistV1

(***************************************************************************)
(* Sell pipelines.  One program runs at a time; run.script names it.       *)
(*   execute-sell   src/unnamed/part_006          (bags.fm quote + swap)   *)
(*   sell-tokens    src/unnamed/part_007:1-129    (bags.fm transaction)    *)
(*   jupiter-sell   src/unnamed/part_004                                   *)
(*   sell-token     src/scripts/sell-token.ts                              *)
(*   sell-creacher  src/scripts/sell-creacher-now.js                       *)
(*   take-profit    src/skills-contrib/bagbot/scripts/scan.sh:511-598      *)
(*   swapWithRetry  src/moltbot-skills-contrib/bagbot/SKILL.md (swap)      *)
(* What the quote API, the build API and the RPC node answer is chosen     *)
(* nondeterministically at each call.                                      *)
(***************************************************************************)

NoQuote == [id |-> 0, valid |-> FALSE, impact |-> NaN, out |-> NaN, minOut |-> NaN]
NoTx    == [payload |-> "none", fromQuote |-> 0, signed |-> FALSE, blockhash |-> 0]

\* Fields of run:
\*   script     "none" before a program is invoked
\*   pc         "idle" | "loop" | "quote" | "build" | "sign" | "simulate" | "send"
\*              | "confirm" | "done"
\*   quote      the quote response held, NoQuote before
\*   tx         the transaction held, NoTx before
\*   trace      attempt states the current attempt has passed, in order
\*   sim        "none" | "ok" | "err": what simulateTransaction answered
\*   sig        0, or the signature the send call returned
\*   outcome    "none" | "ok" | "err" | "timeout" | "rpcerror": the confirmation wait
\*   logged     set of items printed so far
\*   report     "none" | "fill" | "failed": what the run told its caller
\*   received   the amount of SOL the run reported as received, NaN if none
\*   delivered  the amount of SOL the confirmed transaction delivered, NaN if none
\*   wait       0, or the blockhash whose validity window the confirmation wait uses
\*   error      message of the error that ended the run, "" if none
\*   i          loop counter of swapWithRetry
\*   attempts   calls of swap() made by swapWithRetry
\*   usedQuotes ids of the quotes obtained, in order
\*   nextId     next id the quote API hands out
NoRun ==
    [script |-> "none", pc |-> "idle", quote |-> NoQuote, tx |-> NoTx, trace |-> << >>,
     sim |-> "none", sig |-> 0, outcome |-> "none", logged |-> {}, report |-> "none",
     received |-> NaN, delivered |-> NaN, wait |-> 0,
     error |-> "", i |-> 0, attempts |-> 0, usedQuotes |-> << >>, nextId |-> 1]

Impacts == {30, 200, 600}
QuotedOut == 80
QuotedMinOut == 79

\* Answers of a quote request: the call throws (HTTP error, timeout), the body
\* reports a failure, or the body is a quote.
QuoteReplies ==
    {[kind |-> "throw"], [kind |-> "fail"]}
    \cup {[kind |-> "ok", impact |-> im] : im \in Impacts}

\* Answers of a build request: throws, failure body, or a serialized transaction.
BuildReplies == {"throw", "fail", "versioned", "legacy"}

\* A quoteResponse that is an error body is not turned into a transaction.
BuildRepliesFor(q) == IF q.valid THEN BuildReplies ELSE {"throw", "fail"}

SendReplies == {"throw", "BlockhashNotFound", "sent"}

ConfirmReplies == {"ok", "err", "timeout", "rpcerror"}

\* Blocks are numbered from the one whose hash the build service put into the
\* transaction.  getLatestBlockhash() answers the tip at the time of the call.
TxBlockhash == 1
MaxBlocksLater == 1
LatestBlockhashes(b) == b..(b + MaxBlocksLater)

\* What a swap that executed pays out: at least the quote's minimum output, at
\* most the output it expected.
Deliveries == QuotedMinOut..QuotedOut

\* An exception reaches the program's top-level catch: message printed, run over.
Thrown(x, msg) ==
    [x EXCEPT !.pc = "done", !.report = "failed", !.error = msg,
              !.trace = Append(@, "FAILED")]

Quoted(x, r) ==
    [x EXCEPT !.quote = [id |-> x.nextId, valid |-> TRUE, impact |-> r.impact,
                         out |-> QuotedOut, minOut |-> QuotedMinOut],
              !.nextId = @ + 1,
              !.usedQuotes = Append(@, x.nextId),
              !.trace = Append(@, "QUOTED"),
              !.pc = "build"]

\* The body of a failed quote is kept as the quote (no check of it was made).
QuotedUnchecked(x) ==
    [x EXCEPT !.quote = [NoQuote EXCEPT !.id = x.nextId],
              !.nextId = @ + 1,
              !.usedQuotes = Append(@, x.nextId),
              !.pc = "build"]

\* A transaction payload is held; fromQuote is the quote passed as quoteResponse
\* (0 when the build request does not carry the quote).
Built(x, payload, fromQuote) ==
    [x EXCEPT !.tx = [payload |-> payload, fromQuote |-> fromQuote, signed |-> FALSE,
                      blockhash |-> IF payload = "undefined" THEN 0 ELSE TxBlockhash],
              !.trace = IF payload = "undefined" THEN @ ELSE Append(@, "BUILT"),
              !.pc = "sign"]

Signed(x, next) ==
    [x EXCEPT !.tx.signed = TRUE, !.trace = Append(@, "SIGNED"), !.pc = next]

Sent(x) ==
    [x EXCEPT !.sig = 100 + x.quote.id, !.trace = Append(@, "BROADCAST"),
              !.pc = "confirm"]

Printed(x, item) == [x EXCEPT !.logged = @ \cup {item}]

\* const latestBlockhash = await connection.getLatestBlockhash(): the window
\* handed to confirmTransaction.
Awaited(x, latest) == [x EXCEPT !.wait = latest]

\* The run reports a sale: the amount it names is the quote's outAmount.  d is
\* what the transaction paid out if it executed without error.
Filled(x, o, d) ==
    [x EXCEPT !.outcome = o, !.report = "fill", !.trace = Append(@, "CONFIRMED"),
              !.received = x.quote.out,
              !.delivered = IF o = "ok" THEN d ELSE NaN,
              !.logged = @ \cup {"sold"}, !.pc = "done"]

ExecInit == run = NoRun

Scripts ==
    {"execute-sell", "sell-tokens", "jupiter-sell", "sell-token", "sell-creacher",
     "take-profit", "swapWithRetry"}

\* Programs whose main prints the usage and exits when arguments are missing.
ChecksArgs(s) == s \in {"execute-sell", "sell-tokens", "jupiter-sell", "sell-token"}

\* A program is started from the command line.
Invoke ==
    /\ run.script = "none"
    /\ \E s \in Scripts, argsOk \in BOOLEAN :
          /\ argsOk \/ ChecksArgs(s)
          /\ run' = [run EXCEPT !.script = s,
                                !.pc = IF ~argsOk THEN "done"
                                       ELSE IF s = "swapWithRetry" THEN "loop"
                                       ELSE "quote"]
    /\ UNCHANGED <<gateVars, bookVars, chainVars, devVars, perfVars>>

At(s, p) == run.script = s /\ run.pc = p

---------------------------------------------------------------------------
\* execute-sell: executeSell and main

ExecuteSellQuote ==
    /\ At("execute-sell", "quote")
    /\ \E r \in QuoteReplies :
          run' = CASE r.kind = "throw" -> Thrown(run, "request failed")
                   [] r.kind = "fail"  -> Thrown(run, "Quote failed")
                   [] r.kind = "ok"    -> Quoted(run, r)
    /\ UNCHANGED <<gateVars, bookVars, chainVars, devVars, perfVars>>

ExecuteSellBuild ==
    /\ At("execute-sell", "build")
    /\ \E r \in BuildRepliesFor(run.quote) :
          run' = CASE r = "throw" -> Thrown(run, "request failed")
                   [] r = "fail"  -> Thrown(run, "Swap build failed")
                   [] OTHER       -> Built(run, r, run.quote.id)
    /\ UNCHANGED <<gateVars, bookVars, chainVars, devVars, perfVars>>

\* Versioned first; on any error the legacy format is tried.
ExecuteSellSign ==
    /\ At("execute-sell", "sign")
    /\ run' = IF run.tx.payload \in {"versioned", "legacy"}
              THEN Signed(run, "send")
              ELSE Thrown(run, "deserialize failed")
    /\ UNCHANGED <<gateVars, bookVars, chainVars, devVars, perfVars>>

\* skipPreflight: true; the signature is printed right after the send.
ExecuteSellSend ==
    /\ At("execute-sell", "send")
    /\ \E r \in SendReplies :
          run' = IF r = "sent" THEN Printed(Sent(run), "sig") ELSE Thrown(run, r)
    /\ UNCHANGED <<gateVars, bookVars, chainVars, devVars, perfVars>>

ExecuteSellConfirm ==
    /\ At("execute-sell", "confirm")
    /\ \E r \in ConfirmReplies, latest \in LatestBlockhashes(run.tx.blockhash),
          d \in Deliveries :
          run' = CASE r = "ok"  -> Filled(Awaited(run, latest), r, d)
                   [] r = "err" -> Thrown([Awaited(run, latest) EXCEPT !.outcome = r], "Transaction failed")
                   [] OTHER     -> Thrown([Awaited(run, latest) EXCEPT !.outcome = r], r)
    /\ UNCHANGED <<gateVars, bookVars, chainVars, devVars, perfVars>>

---------------------------------------------------------------------------
\* sell-tokens (bags.fm /trade/transaction)

SellTokensQuote ==
    /\ At("sell-tokens", "quote")
    /\ \E r \in QuoteReplies :
          run' = CASE r.kind = "throw" -> Thrown(run, "request failed")
                   [] r.kind = "fail"  -> Thrown(run, "Quote failed")
                   [] r.kind = "ok"    -> Quoted(run, r)
    /\ UNCHANGED <<gateVars, bookVars, chainVars, devVars, perfVars>>

\* The build request repeats mint, amount and slippage; it does not carry the quote.
SellTokensBuild ==
    /\ At("sell-tokens", "build")
    /\ \E r \in BuildReplies :
          run' = CASE r = "throw" -> Thrown(run, "request failed")
                   [] r = "fail"  -> Thrown(run, "Transaction build failed")
                   [] OTHER       -> Built(run, r, 0)
    /\ UNCHANGED <<gateVars, bookVars, chainVars, devVars, perfVars>>

SellTokensSign ==
    /\ At("sell-tokens", "sign")
    /\ run' = IF run.tx.payload = "versioned"
              THEN Signed(run, "send")
              ELSE Thrown(run, "deserialize failed")
    /\ UNCHANGED <<gateVars, bookVars, chainVars, devVars, perfVars>>

SellTokensSend ==
    /\ At("sell-tokens", "send")
    /\ \E r \in SendReplies :
          run' = IF r = "sent" THEN Printed(Sent(run), "sig") ELSE Thrown(run, r)
    /\ UNCHANGED <<gateVars, bookVars, chainVars, devVars, perfVars>>

\* value.err is printed as a failure; the function returns {signature, solOut}.
SellTokensConfirm ==
    /\ At("sell-tokens", "confirm")
    /\ \E r \in ConfirmReplies, latest \in LatestBlockhashes(run.tx.blockhash),
          d \in Deliveries :
          run' = CASE r = "ok"  -> Filled(Awaited(run, latest), r, d)
                   [] r = "err" -> [Awaited(run, latest) EXCEPT !.outcome = r, !.report = "failed",
                                               !.error = "Failed",
                                               !.trace = Append(@, "FAILED"),
                                               !.pc = "done"]
                   [] OTHER     -> Thrown([Awaited(run, latest) EXCEPT !.outcome = r], r)
    /\ UNCHANGED <<gateVars, bookVars, chainVars, devVars, perfVars>>

---------------------------------------------------------------------------
\* jupiter-sell: neither response body is checked

JupiterSellQuote ==
    /\ At("jupiter-sell", "quote")
    /\ \E r \in QuoteReplies :
          run' = CASE r.kind = "throw" -> Thrown(run, "request failed")
                   [] r.kind = "fail"  -> QuotedUnchecked(run)
                   [] r.kind = "ok"    -> Quoted(run, r)
    /\ UNCHANGED <<gateVars, bookVars, chainVars, devVars, perfVars>>

JupiterSellBuild ==
    /\ At("jupiter-sell", "build")
    /\ \E r \in BuildRepliesFor(run.quote) :
          run' = CASE r = "throw" -> Thrown(run, "request failed")
                   [] r = "fail"  -> Built(run, "undefined", run.quote.id)
                   [] OTHER       -> Built(run, r, run.quote.id)
    /\ UNCHANGED <<gateVars, bookVars, chainVars, devVars, perfVars>>

JupiterSellSign ==
    /\ At("jupiter-sell", "sign")
    /\ run' = IF run.tx.payload = "versioned"
              THEN Signed(run, "send")
              ELSE Thrown(run, "deserialize failed")
    /\ UNCHANGED <<gateVars, bookVars, chainVars, devVars, perfVars>>

JupiterSellSend ==
    /\ At("jupiter-sell", "send")
    /\ \E r \in SendReplies :
          run' = IF r = "sent" THEN Printed(Sent(run), "sig") ELSE Thrown(run, r)
    /\ UNCHANGED <<gateVars, bookVars, chainVars, devVars, perfVars>>

\* value.err: prints the failure and returns success: false.
JupiterSellConfirm ==
    /\ At("jupiter-sell", "confirm")
    /\ \E r \in ConfirmReplies, latest \in LatestBlockhashes(run.tx.blockhash),
          d \in Deliveries :
          run' = CASE r = "ok"  -> Filled(Awaited(run, latest), r, d)
                   [] r = "err" -> [Awaited(run, latest) EXCEPT !.outcome = r, !.report = "failed",
                                               !.error = "Failed",
                                               !.trace = Append(@, "FAILED"),
                                               !.pc = "done"]
                   [] OTHER     -> Thrown([Awaited(run, latest) EXCEPT !.outcome = r], r)
    /\ UNCHANGED <<gateVars, bookVars, chainVars, devVars, perfVars>>

---------------------------------------------------------------------------
\* sell-token (Jupiter v6): the only program that looks at the price impact

PriceImpactCeiling == 500

SellTokenQuote ==
    /\ At("sell-token", "quote")
    /\ \E r \in QuoteReplies :
          run' = CASE r.kind = "throw" -> Thrown(run, "request failed")
                   [] r.kind = "fail"  -> Thrown(run, "Quote error")
                   [] r.kind = "ok"    ->
                        IF NumGT(r.impact, PriceImpactCeiling)
                        THEN [Quoted(run, r) EXCEPT
                                 !.pc = "done", !.report = "failed",
                                 !.error = "Price impact too high",
                                 !.trace = Append(@, "FAILED")]
                        ELSE Quoted(run, r)
    /\ UNCHANGED <<gateVars, bookVars, chainVars, devVars, perfVars>>

\* The body of the swap response is not checked.
SellTokenBuild ==
    /\ At("sell-token", "build")
    /\ \E r \in BuildRepliesFor(run.quote) :
          run' = CASE r = "throw" -> Thrown(run, "request failed")
                   [] r = "fail"  -> Built(run, "undefined", run.quote.id)
                   [] OTHER       -> Built(run, r, run.quote.id)
    /\ UNCHANGED <<gateVars, bookVars, chainVars, devVars, perfVars>>

SellTokenSign ==
    /\ At("sell-token", "sign")
    /\ run' = IF run.tx.payload = "versioned"
              THEN Signed(run, "send")
              ELSE Thrown(run, "deserialize failed")
    /\ UNCHANGED <<gateVars, bookVars, chainVars, devVars, perfVars>>

SellTokenSend ==
    /\ At("sell-token", "send")
    /\ \E r \in SendReplies :
          run' = IF r = "sent" THEN Printed(Sent(run), "sig") ELSE Thrown(run, r)
    /\ UNCHANGED <<gateVars, bookVars, chainVars, devVars, perfVars>>

\* The value confirmTransaction resolves to is dropped: only a throw stops the run.
SellTokenConfirm ==
    /\ At("sell-token", "confirm")
    /\ \E r \in ConfirmReplies, latest \in LatestBlockhashes(run.tx.blockhash),
          d \in Deliveries :
          run' = IF r \in {"ok", "err"}
                 THEN Filled(Awaited(run, latest), r, d)
                 ELSE Thrown([Awaited(run, latest) EXCEPT !.outcome = r], r)
    /\ UNCHANGED <<gateVars, bookVars, chainVars, devVars, perfVars>>

---------------------------------------------------------------------------
\* sell-creacher-now: fixed mint and amount, no check of any response body;
\* outSol is Number(BigInt(quote.outAmount || quote.outputAmount || 0)) / 1e9.

SellCreacherQuote ==
    /\ At("sell-creacher", "quote")
    /\ \E r \in QuoteReplies :
          run' = CASE r.kind = "throw" -> Thrown(run, "request failed")
                   [] r.kind = "fail"  -> [QuotedUnchecked(run) EXCEPT !.quote.out = 0]
                   [] r.kind = "ok"    -> Quoted(run, r)
    /\ UNCHANGED <<gateVars, bookVars, chainVars, devVars, perfVars>>

\* The swap request repeats mint and amount; it does not carry the quote.
SellCreacherBuild ==
    /\ At("sell-creacher", "build")
    /\ \E r \in BuildReplies :
          run' = CASE r = "throw" -> Thrown(run, "request failed")
                   [] r = "fail"  -> Built(run, "undefined", 0)
                   [] OTHER       -> Built(run, r, 0)
    /\ UNCHANGED <<gateVars, bookVars, chainVars, devVars, perfVars>>

SellCreacherSign ==
    /\ At("sell-creacher", "sign")
    /\ run' = IF run.tx.payload = "versioned"
              THEN Signed(run, "send")
              ELSE Thrown(run, "deserialize failed")
    /\ UNCHANGED <<gateVars, bookVars, chainVars, devVars, perfVars>>

SellCreacherSend ==
    /\ At("sell-creacher", "send")
    /\ \E r \in SendReplies :
          run' = IF r = "sent" THEN Printed(Sent(run), "sig") ELSE Thrown(run, r)
    /\ UNCHANGED <<gateVars, bookVars, chainVars, devVars, perfVars>>

SellCreacherConfirm ==
    /\ At("sell-creacher", "confirm")
    /\ \E r \in ConfirmReplies, latest \in LatestBlockhashes(run.tx.blockhash),
          d \in Deliveries :
          run' = IF r \in {"ok", "err"}
                 THEN Filled(Awaited(run, latest), r, d)
                 ELSE Thrown([Awaited(run, latest) EXCEPT !.outcome = r], r)
    /\ UNCHANGED <<gateVars, bookVars, chainVars, devVars, perfVars>>

---------------------------------------------------------------------------
\* partial take-profit script: the one program that simulates before sending.
\* It sells a fixed 33% of the ENDLESS position (thousands of tokens).
OpenedTokens == 725
SellAmount == 239

Executed(c, amount) == [balance |-> c.balance - amount, sold |-> Append(c.sold, amount)]

ChainInit == chain = [balance |-> OpenedTokens, sold |-> << >>]

TakeProfitQuote ==
    /\ At("take-profit", "quote")
    /\ \E r \in QuoteReplies :
          run' = CASE r.kind = "throw" -> Thrown(run, "request failed")
                   [] r.kind = "fail"  -> Thrown(run, "Quote error")
                   [] r.kind = "ok"    -> Quoted(run, r)
    /\ UNCHANGED <<gateVars, bookVars, chainVars, devVars, perfVars>>

TakeProfitBuild ==
    /\ At("take-profit", "build")
    /\ \E r \in BuildRepliesFor(run.quote) :
          run' = CASE r = "throw" -> Thrown(run, "request failed")
                   [] r = "fail"  -> Thrown(run, "Swap error")
                   [] OTHER       -> Built(run, r, run.quote.id)
    /\ UNCHANGED <<gateVars, bookVars, chainVars, devVars, perfVars>>

TakeProfitSign ==
    /\ At("take-profit", "sign")
    /\ run' = IF run.tx.payload = "versioned"
              THEN Signed(run, "simulate")
              ELSE Thrown(run, "deserialize failed")
    /\ UNCHANGED <<gateVars, bookVars, chainVars, devVars, perfVars>>

\* The node simulates against the current state of the chain: the swap cannot
\* pass when the wallet holds fewer tokens than the amount sold.
TakeProfitSimulate ==
    /\ At("take-profit", "simulate")
    /\ \E r \in {"ok", "err"} :
          /\ r = "ok" => chain.balance >= SellAmount
          /\ run' = IF r = "ok"
                    THEN [run EXCEPT !.sim = r, !.trace = Append(@, "SIMULATED"),
                                     !.pc = "send"]
                    ELSE Thrown([run EXCEPT !.sim = r], "Simulation failed")
    /\ UNCHANGED <<gateVars, bookVars, chainVars, devVars, perfVars>>

TakeProfitSend ==
    /\ At("take-profit", "send")
    /\ \E r \in SendReplies :
          run' = IF r = "sent" THEN Printed(Sent(run), "sig") ELSE Thrown(run, r)
    /\ UNCHANGED <<gateVars, bookVars, chainVars, devVars, perfVars>>

\* A confirmed transaction has moved SellAmount tokens out of the wallet; when
\* the wait itself fails, the transaction may or may not have been executed.
\* The script writes nothing: watchlist.json is left as it was.
TakeProfitConfirm ==
    /\ At("take-profit", "confirm")
    /\ \E r \in ConfirmReplies, executed \in BOOLEAN, d \in Deliveries :
          /\ executed => chain.balance >= SellAmount
          /\ r = "ok" => executed
          /\ r = "err" => ~executed
          /\ run' = CASE r = "ok"  -> [Filled(run, r, d) EXCEPT !.received = NaN]
                      [] r = "err" -> Thrown([run EXCEPT !.outcome = r], "Transaction failed")
                      [] OTHER     -> Thrown([run EXCEPT !.outcome = r], r)
          /\ chain' = IF executed THEN Executed(chain, SellAmount) ELSE chain
    /\ UNCHANGED <<gateVars, bookVars, devVars, perfVars>>

---------------------------------------------------------------------------
\* swapWithRetry and swap

MaxRetries == 3

\* Mutant: the loop test is off by one (i <= maxRetries).
RetryLoopOffByOne ==
    /\ At("swapWithRetry", "loop")
    /\ run' = IF run.i <= MaxRetries
              THEN [run EXCEPT !.attempts = @ + 1, !.pc = "quote", !.quote = NoQuote,
                               !.tx = NoTx, !.trace = << >>, !.sim = "none", !.sig = 0,
                               !.outcome = "none", !.wait = 0]
              ELSE [run EXCEPT !.pc = "done", !.report = "failed",
                               !.error = "Max retries exceeded"]
    /\ UNCHANGED <<gateVars, bookVars, chainVars, devVars, perfVars>>

\* Mutant: a retry keeps the quote of the expired attempt and goes on from the build.
RetryLoopReuseQuote ==
    /\ At("swapWithRetry", "loop")
    /\ run' = IF run.i < MaxRetries
              THEN [run EXCEPT !.attempts = @ + 1,
                               !.pc = IF run.attempts = 0 THEN "quote" ELSE "build",
                               !.tx = NoTx, !.trace = << >>, !.sim = "none", !.sig = 0,
                               !.outcome = "none", !.wait = 0]
              ELSE [run EXCEPT !.pc = "done", !.report = "failed",
                               !.error = "Max retries exceeded"]
    /\ UNCHANGED <<gateVars, bookVars, chainVars, devVars, perfVars>>

\* for (let i = 0; i < maxRetries; i++) { try { return await swap(...) } ... }
\* throw new Error('Max retries exceeded')
RetryLoop ==
    /\ At("swapWithRetry", "loop")
    /\ run' = IF run.i < MaxRetries
              THEN [run EXCEPT !.attempts = @ + 1, !.pc = "quote", !.quote = NoQuote,
                               !.tx = NoTx, !.trace = << >>, !.sim = "none", !.sig = 0,
                               !.outcome = "none", !.wait = 0]
              ELSE [run EXCEPT !.pc = "done", !.report = "failed",
                               !.error = "Max retries exceeded"]
    /\ UNCHANGED <<gateVars, bookVars, chainVars, devVars, perfVars>>

\* The catch clause: BlockhashNotFound is retried after a pause and i++,
\* anything else is thrown to the caller.
Catch(x, msg) ==
    IF msg = "BlockhashNotFound"
    THEN [x EXCEPT !.i = @ + 1, !.pc = "loop", !.trace = Append(@, "EXPIRED"),
                   !.logged = @ \cup {"retry"}]
    ELSE Thrown(x, msg)

SwapQuote ==
    /\ At("swapWithRetry", "quote")
    /\ \E r \in QuoteReplies :
          run' = CASE r.kind = "throw" -> Catch(run, "request failed")
                   [] r.kind = "fail"  -> QuotedUnchecked(run)
                   [] r.kind = "ok"    -> Quoted(run, r)
    /\ UNCHANGED <<gateVars, bookVars, chainVars, devVars, perfVars>>

SwapBuild ==
    /\ At("swapWithRetry", "build")
    /\ \E r \in BuildRepliesFor(run.quote) :
          run' = CASE r = "throw" -> Catch(run, "request failed")
                   [] r = "fail"  -> Built(run, "undefined", run.quote.id)
                   [] OTHER       -> Built(run, r, run.quote.id)
    /\ UNCHANGED <<gateVars, bookVars, chainVars, devVars, perfVars>>

SwapSign ==
    /\ At("swapWithRetry", "sign")
    /\ run' = IF run.tx.payload = "versioned"
              THEN Signed(run, "send")
              ELSE Catch(run, "deserialize failed")
    /\ UNCHANGED <<gateVars, bookVars, chainVars, devVars, perfVars>>

\* The signature is not printed before the confirmation wait.
SwapSend ==
    /\ At("swapWithRetry", "send")
    /\ \E r \in SendReplies :
          run' = IF r = "sent" THEN Sent(run) ELSE Catch(run, r)
    /\ UNCHANGED <<gateVars, bookVars, chainVars, devVars, perfVars>>

\* await connection.confirmTransaction(signature, 'confirmed'): value dropped.
SwapConfirm ==
    /\ At("swapWithRetry", "confirm")
    /\ \E r \in ConfirmReplies, d \in Deliveries :
          run' = IF r \in {"ok", "err"}
                 THEN Printed([Filled(run, r, d) EXCEPT !.received = NaN], "sig")
                 ELSE Catch([run EXCEPT !.outcome = r], r)
    /\ UNCHANGED <<gateVars, bookVars, chainVars, devVars, perfVars>>

---------------------------------------------------------------------------

ExecNext ==
    \/ Invoke
    \/ ExecuteSellQuote \/ ExecuteSellBuild \/ ExecuteSellSign
    \/ ExecuteSellSend \/ ExecuteSellConfirm
    \/ SellTokensQuote \/ SellTokensBuild \/ SellTokensSign
    \/ SellTokensSend \/ SellTokensConfirm
    \/ JupiterSellQuote \/ JupiterSellBuild \/ JupiterSellSign
    \/ JupiterSellSend \/ JupiterSellConfirm
    \/ SellTokenQuote \/ SellTokenBuild \/ SellTokenSign
    \/ SellTokenSend \/ SellTokenConfirm
    \/ SellCreacherQuote \/ SellCreacherBuild \/ SellCreacherSign
    \/ SellCreacherSend \/ SellCreacherConfirm
    \/ TakeProfitQuote \/ TakeProfitBuild \/ TakeProfitSign \/ TakeProfitSimulate
    \/ TakeProfitSend \/ TakeProfitConfirm
    \/ RetryLoop \/ SwapQuote \/ SwapBuild \/ SwapSign \/ SwapSend \/ SwapConfirm

(***************************************************************************)
(* Position tools: liquidity-check.ts and the position value tracker       *)
(***************************************************************************)

\* A percentage ((a / b) - 1) * 100 kept as the exact fraction num/den.
Pct(a, b) == [num |-> (a - b) * 100, den |-> b]
PctOf(n) == [num |-> n, den |-> 1]
PctLT(p, q) == p.num * q.den < q.num * p.den
PctGE0(p) == p.num >= 0

\* pair.liquidity of a DexScreener pair: absent, or { usd }
NoLiquidity == [present |-> FALSE, usd |-> 0]
Liquidity(u) == [present |-> TRUE, usd |-> u]

\* the answer of /trade/quote for the whole position
QuoteDown == [ok |-> FALSE, outSol |-> 0, priceImpact |-> 0]
SellQuote(o, pi) == [ok |-> TRUE, outSol |-> o, priceImpact |-> pi]

Positions ==
    { [tokens |-> 100, costBasis |-> 20, entryPrice |-> 1, notes |-> ""],
      [tokens |-> 10,  costBasis |-> 50, entryPrice |-> 2, notes |-> "DIAMOND"],
      [tokens |-> 100, costBasis |-> 50, entryPrice |-> 2, notes |-> "NEVER"] }

Feeds ==
    { [hasPair |-> TRUE,  liquidity |-> NoLiquidity,     priceUsd |-> 1, quote |-> SellQuote(60, 30)],
      [hasPair |-> TRUE,  liquidity |-> Liquidity(50),   priceUsd |-> 1, quote |-> SellQuote(10, 600)],
      [hasPair |-> TRUE,  liquidity |-> Liquidity(300),  priceUsd |-> 2, quote |-> SellQuote(20, 200)],
      [hasPair |-> TRUE,  liquidity |-> Liquidity(2000), priceUsd |-> 2, quote |-> SellQuote(60, 30)],
      [hasPair |-> TRUE,  liquidity |-> Liquidity(2000), priceUsd |-> 1, quote |-> QuoteDown],
      [hasPair |-> FALSE, liquidity |-> NoLiquidity,     priceUsd |-> 1, quote |-> SellQuote(20, 30)] }

MaxPositions == 2
Symbols == <<"P1", "P2", "P3", "P4">>

NoBook == [tool |-> "none", pc |-> "idle", k |-> 1, results |-> << >>,
           summary |-> [stranded |-> 0, warning |-> 0, healthy |-> 0, errors |-> 0,
                        strandedValue |-> 0, warningValue |-> 0],
           totalCostBasis |-> 0, totalSellValue |-> 0,
           totalPnlPercent |-> PctOf(0), waits |-> 0, names |-> << >>]

BookInit ==
    /\ \E n \in 1..MaxPositions :
          /\ \E ps \in [1..n -> Positions] :
                watchlist = [j \in 1..n |->
                               [symbol |-> Symbols[j], tokens |-> ps[j].tokens,
                                costBasis |-> ps[j].costBasis,
                                entryPrice |-> ps[j].entryPrice, notes |-> ps[j].notes]]
          /\ feeds \in [1..n -> Feeds]
    /\ book = NoBook

NoBookInit == watchlist = << >> /\ feeds = << >> /\ book = NoBook

LIQUIDITY_CRITICAL == 100
LIQUIDITY_WARNING == 500

\* fetchLiquidity: null when the request fails or no pair is listed;
\* liquidity: pair.liquidity?.usd || 0
NoLiquidityData == [isNull |-> TRUE, liquidity |-> 0, priceUsd |-> 0]
fetchLiquidity(f, reply) ==
    IF reply = "error" \/ ~f.hasPair
    THEN NoLiquidityData
    ELSE [isNull |-> FALSE,
          liquidity |-> IF f.liquidity.present /\ f.liquidity.usd # 0
                        THEN f.liquidity.usd ELSE 0,
          priceUsd |-> f.priceUsd]

getStatus(liquidity) ==
    IF liquidity < LIQUIDITY_CRITICAL THEN "STRANDED"
    ELSE IF liquidity < LIQUIDITY_WARNING THEN "WARNING"
    ELSE "HEALTHY"

\* the body of the for loop of checkLiquidity
LiquidityRow(pos, data) ==
    IF ~data.isNull
    THEN LET currentValue == data.priceUsd * pos.tokens
         IN  [symbol |-> pos.symbol, liquidity |-> data.liquidity,
              currentValue |-> currentValue, priceUsd |-> data.priceUsd,
              status |-> getStatus(data.liquidity),
              canExit |-> data.liquidity > currentValue * 2,
              pnlPercent |-> Pct(data.priceUsd, pos.entryPrice)]
    ELSE [symbol |-> pos.symbol, liquidity |-> 0, currentValue |-> 0, priceUsd |-> 0,
          status |-> "ERROR", canExit |-> FALSE, pnlPercent |-> PctOf(0)]

\* Array.prototype.sort with a comparator: a stable sort.  The element at
\* index i goes after every element that sorts before it and after every
\* equal element that precedes it.
SortBy(s, Before(_, _)) ==
    LET rank(i) == 1 + Cardinality({ j \in 1..Len(s) :
                        \/ Before(s[j], s[i])
                        \/ (~Before(s[i], s[j]) /\ j < i) })
    IN  [k \in 1..Len(s) |-> s[CHOOSE i \in 1..Len(s) : rank(i) = k]]

\* results.filter(Keep).reduce((sum, r) => sum + Val(r), 0)
SumOf(s, Keep(_), Val(_)) ==
    LET sum[k \in 0..Len(s)] ==
            IF k = 0 THEN 0
            ELSE sum[k - 1] + (IF Keep(s[k]) THEN Val(s[k]) ELSE 0)
    IN  sum[Len(s)]

LiquidityAscending(a, b) == a.liquidity < b.liquidity
IsStranded(r) == r.status = "STRANDED"
IsLiqWarning(r) == r.status = "WARNING"
IsHealthy(r) == r.status = "HEALTHY"
IsError(r) == r.status = "ERROR"
CurrentValueOf(r) == r.currentValue

BookAt(t, p) == book.tool = t /\ book.pc = p

\* Tools that read data/watchlist.json; the others work on positions in memory.
FileTools ==
    {"liquidity-check", "getStrandedPositions", "position-value-tracker", "getPortfolioValue"}
Tools == FileTools \cup {"checkStopLosses", "stop-loss-check"}

\* Start one of the position tools; a watchlist that cannot be read ends
\* checkLiquidity and checkPositionValues with exit(1).
StartTool ==
    /\ book.tool = "none"
    /\ \E t \in Tools, readable \in BOOLEAN :
          /\ readable \/ t \in FileTools
          /\ book' = [book EXCEPT !.tool = t,
                                  !.pc = IF readable THEN "loop"
                                         ELSE IF t = "getStrandedPositions" THEN "done"
                                         ELSE "exit1"]
    /\ UNCHANGED <<gateVars, execVars, chainVars, devVars, perfVars, watchlist, feeds>>

\* checkLiquidity: one turn of for (const pos of watchlist.positions)
CheckLiquidityPosition ==
    /\ BookAt("liquidity-check", "loop")
    /\ book.k <= Len(watchlist)
    /\ \E reply \in {"ok", "error"} :
          book' = [book EXCEPT
                     !.results = Append(@, LiquidityRow(watchlist[book.k],
                                                        fetchLiquidity(feeds[book.k], reply))),
                     !.k = @ + 1]
    /\ UNCHANGED <<gateVars, execVars, chainVars, devVars, perfVars, watchlist, feeds>>

\* checkLiquidity after the loop: sort, count by status, sum the locked values
CheckLiquiditySummary ==
    /\ BookAt("liquidity-check", "loop")
    /\ book.k > Len(watchlist)
    /\ LET results == SortBy(book.results, LiquidityAscending)
       IN  book' = [book EXCEPT
                      !.results = results,
                      !.summary = [stranded |-> CountIf(results, IsStranded),
                                   warning  |-> CountIf(results, IsLiqWarning),
                                   healthy  |-> CountIf(results, IsHealthy),
                                   errors   |-> CountIf(results, IsError),
                                   strandedValue |-> SumOf(results, IsStranded, CurrentValueOf),
                                   warningValue  |-> SumOf(results, IsLiqWarning, CurrentValueOf)],
                      !.pc = "done"]
    /\ UNCHANGED <<gateVars, execVars, chainVars, devVars, perfVars, watchlist, feeds>>

\* getStrandedPositions: one turn of the loop
GetStrandedPosition ==
    /\ BookAt("getStrandedPositions", "loop")
    /\ book.k <= Len(watchlist)
    /\ \E reply \in {"ok", "error"} :
          LET data == fetchLiquidity(feeds[book.k], reply)
          IN  book' = [book EXCEPT
                         !.names = IF ~data.isNull /\ data.liquidity < LIQUIDITY_CRITICAL
                                   THEN Append(@, watchlist[book.k].symbol) ELSE @,
                         !.k = @ + 1]
    /\ UNCHANGED <<gateVars, execVars, chainVars, devVars, perfVars, watchlist, feeds>>

GetStrandedReturn ==
    /\ BookAt("getStrandedPositions", "loop")
    /\ book.k > Len(watchlist)
    /\ book' = [book EXCEPT !.pc = "done"]
    /\ UNCHANGED <<gateVars, execVars, chainVars, devVars, perfVars, watchlist, feeds>>

\* getSellQuote: the quote when the service answers success with a response,
\* null on any other answer or error (a 429 is retried, see TrackRateLimited).
NoSellQuote == [isNull |-> TRUE, outSol |-> 0, priceImpact |-> 0]
getSellQuote(f, reply) ==
    IF reply = "ok" /\ f.quote.ok
    THEN [isNull |-> FALSE, outSol |-> f.quote.outSol, priceImpact |-> f.quote.priceImpact]
    ELSE NoSellQuote

NotesInclude(pos, word) == pos.notes = word

\* the body of the for loop of checkPositionValues
ValueRow(pos, quote) ==
    IF ~quote.isNull
    THEN LET sellValueSol == quote.outSol
             pnlPercent == Pct(sellValueSol, pos.costBasis)
         IN  [symbol |-> pos.symbol, tokens |-> pos.tokens, costBasis |-> pos.costBasis,
              sellValueSol |-> sellValueSol,
              pnlSol |-> sellValueSol - pos.costBasis,
              pnlPercent |-> pnlPercent,
              priceImpact |-> quote.priceImpact,
              status |-> IF NotesInclude(pos, "DIAMOND") \/ NotesInclude(pos, "NEVER")
                         THEN "DIAMOND"
                         ELSE IF PctGE0(pnlPercent) THEN "PROFIT" ELSE "LOSS",
              notes |-> pos.notes]
    ELSE [symbol |-> pos.symbol, tokens |-> pos.tokens, costBasis |-> pos.costBasis,
          sellValueSol |-> 0, pnlSol |-> 0 - pos.costBasis, pnlPercent |-> PctOf(-100),
          priceImpact |-> 0, status |-> "ERROR", notes |-> pos.notes]

PnlDescending(a, b) == PctLT(b.pnlPercent, a.pnlPercent)

MaxWaits == 1

\* getSellQuote answered 429: sleep and ask again for the same position
TrackRateLimited ==
    /\ (BookAt("position-value-tracker", "loop") \/ BookAt("getPortfolioValue", "loop"))
    /\ book.k <= Len(watchlist)
    /\ book.waits < MaxWaits
    /\ book' = [book EXCEPT !.waits = @ + 1]
    /\ UNCHANGED <<gateVars, execVars, chainVars, devVars, perfVars, watchlist, feeds>>

\* Mutant: a position whose quote failed is written back with no tokens.
TrackPositionZeroesFailed ==
    /\ BookAt("position-value-tracker", "loop")
    /\ book.k <= Len(watchlist)
    /\ \E reply \in {"ok", "error"} :
          LET pos == watchlist[book.k]
              quote == getSellQuote(feeds[book.k], reply)
          IN  /\ book' = [book EXCEPT
                            !.results = Append(@, ValueRow(pos, quote)),
                            !.totalCostBasis = IF quote.isNull THEN @ ELSE @ + pos.costBasis,
                            !.totalSellValue = IF quote.isNull THEN @ ELSE @ + quote.outSol,
                            !.waits = 0,
                            !.k = @ + 1]
              /\ watchlist' = IF quote.isNull
                              THEN [watchlist EXCEPT ![book.k].tokens = 0]
                              ELSE watchlist
    /\ UNCHANGED <<gateVars, execVars, chainVars, devVars, perfVars, feeds>>

\* checkPositionValues: one turn of for (const pos of watchlist.positions)
TrackPosition ==
    /\ BookAt("position-value-tracker", "loop")
    /\ book.k <= Len(watchlist)
    /\ \E reply \in {"ok", "error"} :
          LET pos == watchlist[book.k]
              quote == getSellQuote(feeds[book.k], reply)
          IN  book' = [book EXCEPT
                         !.results = Append(@, ValueRow(pos, quote)),
                         !.totalCostBasis = IF quote.isNull THEN @ ELSE @ + pos.costBasis,
                         !.totalSellValue = IF quote.isNull THEN @ ELSE @ + quote.outSol,
                         !.waits = 0,
                         !.k = @ + 1]
    /\ UNCHANGED <<gateVars, execVars, chainVars, devVars, perfVars, watchlist, feeds>>

\* checkPositionValues after the loop: sort by P&L, totals, position-values.json
TrackSummary ==
    /\ BookAt("position-value-tracker", "loop")
    /\ book.k > Len(watchlist)
    /\ book' = [book EXCEPT
                  !.results = SortBy(@, PnlDescending),
                  !.totalPnlPercent = Pct(book.totalSellValue, book.totalCostBasis),
                  !.pc = "done"]
    /\ UNCHANGED <<gateVars, execVars, chainVars, devVars, perfVars, watchlist, feeds>>

\* getPortfolioValue: one turn of the loop; a position without a quote gets no row
PortfolioRow(pos, quote) ==
    [symbol |-> pos.symbol, tokens |-> pos.tokens, costBasis |-> pos.costBasis,
     sellValueSol |-> quote.outSol,
     pnlSol |-> quote.outSol - pos.costBasis,
     pnlPercent |-> Pct(quote.outSol, pos.costBasis),
     priceImpact |-> quote.priceImpact,
     status |-> IF NotesInclude(pos, "DIAMOND") THEN "DIAMOND"
                ELSE IF quote.outSol >= pos.costBasis THEN "PROFIT" ELSE "LOSS",
     notes |-> pos.notes]

PortfolioPosition ==
    /\ BookAt("getPortfolioValue", "loop")
    /\ book.k <= Len(watchlist)
    /\ \E reply \in {"ok", "error"} :
          LET pos == watchlist[book.k]
              quote == getSellQuote(feeds[book.k], reply)
          IN  book' = IF quote.isNull
                      THEN [book EXCEPT !.waits = 0, !.k = @ + 1]
                      ELSE [book EXCEPT
                              !.results = Append(@, PortfolioRow(pos, quote)),
                              !.totalCostBasis = @ + pos.costBasis,
                              !.totalSellValue = @ + quote.outSol,
                              !.waits = 0,
                              !.k = @ + 1]
    /\ UNCHANGED <<gateVars, execVars, chainVars, devVars, perfVars, watchlist, feeds>>

PortfolioReturn ==
    /\ BookAt("getPortfolioValue", "loop")
    /\ book.k > Len(watchlist)
    /\ book' = [book EXCEPT
                  !.totalPnlPercent = Pct(book.totalSellValue, book.totalCostBasis),
                  !.pc = "done"]
    /\ UNCHANGED <<gateVars, execVars, chainVars, devVars, perfVars, watchlist, feeds>>

\* position.stopLoss: -0.15, as a percentage
StopLoss == -15

\* pnl <= position.stopLoss, for pnl kept as a percentage fraction
PctLE(p, n) == p.num <= n * p.den

\* checkStopLosses (SKILL.md): P&L from the priceUsd DexScreener lists; a
\* position without data is skipped, for the others the P&L is printed.
CheckStopLossPosition ==
    /\ BookAt("checkStopLosses", "loop")
    /\ book.k <= Len(watchlist)
    /\ \E reply \in {"ok", "error"} :
          LET position == watchlist[book.k]
              haveData == reply = "ok" /\ feeds[book.k].hasPair
              pnl == Pct(feeds[book.k].priceUsd, position.entryPrice)
          IN  book' = [book EXCEPT
                         !.results = IF haveData
                                     THEN Append(@, [symbol |-> position.symbol,
                                                     pnlPercent |-> pnl])
                                     ELSE @,
                         !.names = IF haveData /\ PctLE(pnl, StopLoss)
                                   THEN Append(@, position.symbol) ELSE @,
                         !.k = @ + 1]
    /\ UNCHANGED <<gateVars, execVars, chainVars, devVars, perfVars, watchlist, feeds>>

CheckStopLossReturn ==
    /\ BookAt("checkStopLosses", "loop")
    /\ book.k > Len(watchlist)
    /\ book' = [book EXCEPT !.pc = "done"]
    /\ UNCHANGED <<gateVars, execVars, chainVars, devVars, perfVars, watchlist, feeds>>

\* The stop-loss check of position-management.md, made on one position: P&L
\* from the sell quote for the token balance; a failed quote request throws.
StopLossCheck ==
    /\ BookAt("stop-loss-check", "loop")
    /\ \E j \in 1..Len(watchlist), reply \in {"ok", "error"} :
          LET quote == getSellQuote(feeds[j], reply)
              pnl == Pct(quote.outSol, watchlist[j].costBasis)
          IN  book' = IF quote.isNull
                      THEN [book EXCEPT !.k = j, !.pc = "exit1"]
                      ELSE [book EXCEPT
                              !.k = j,
                              !.names = IF PctLE(pnl, StopLoss)
                                        THEN Append(@, watchlist[j].symbol) ELSE @,
                              !.pc = "done"]
    /\ UNCHANGED <<gateVars, execVars, chainVars, devVars, perfVars, watchlist, feeds>>

BookNext ==
    \/ StartTool
    \/ CheckLiquidityPosition \/ CheckLiquiditySummary
    \/ GetStrandedPosition \/ GetStrandedReturn
    \/ TrackRateLimited \/ TrackPosition \/ TrackSummary
    \/ PortfolioPosition \/ PortfolioReturn
    \/ CheckStopLossPosition \/ CheckStopLossReturn \/ StopLossCheck

(***************************************************************************)
(* Creator verification: verifyDev of trade-checklist-v2 and the            *)
(* dev-checker command (checkDev).  A field the service left out, null or   *)
(* empty is "": all are falsy in the code.                                  *)
(***************************************************************************)

Usernames == {"", "dev"}
Providers == {"", "twitter", "github", "unknown"}
Creators == [twitterUsername : Usernames, githubUsername : Usernames, provider : Providers]
MaxCreators == 2
CreatorLists == UNION { [1..n -> Creators] : n \in 0..MaxCreators }

\* lookup: how verifyDev came by its creator list: "sdk", "rejected" (the
\* creators call of the SDK was rejected), "api" (fallback) or "failed" (both
\* the SDK path and the fallback threw); "none" otherwise.
NoDev == [tool |-> "none", pc |-> "idle", verified |-> FALSE, creators |-> << >>,
          verdict |-> "none", lookup |-> "none"]

IdleDev == creators = << >> /\ dev = NoDev

\* rawCreators.map(...): the Creator interface keeps the two usernames.
Creator(c) == [twitterUsername |-> c.twitterUsername, githubUsername |-> c.githubUsername]

\* c => c.twitterUsername || c.githubUsername
HasSocial(c) == c.twitterUsername # "" \/ c.githubUsername # ""

DevVerification(cs) ==
    [tool |-> "verifyDev", pc |-> "done",
     verified |-> \E k \in 1..Len(cs) : HasSocial(cs[k]),
     creators |-> cs,
     verdict |-> "none", lookup |-> "sdk"]

SdkReplies == {"ok", "rejected", "throws"}
ApiReplies == {"ok", "err"}

\* verifyDev: the SDK call; a rejected getTokenCreators is an empty list; on an
\* exception the public API is asked, and when that fails too the result is
\* unverified with no creators.
verifyDev ==
    /\ dev.pc = "idle"
    /\ \E sdk \in SdkReplies, api \in ApiReplies :
          dev' = CASE sdk = "ok"       -> DevVerification([k \in 1..Len(creators) |-> Creator(creators[k])])
                   [] sdk = "rejected" -> [DevVerification(<< >>) EXCEPT !.lookup = "rejected"]
                   [] api = "ok"       -> [DevVerification([k \in 1..Len(creators) |-> Creator(creators[k])])
                                              EXCEPT !.lookup = "api"]
                   [] OTHER            -> [DevVerification(<< >>) EXCEPT !.lookup = "failed"]
    /\ UNCHANGED <<gateVars, execVars, bookVars, chainVars, creators, perfVars>>

\* The loop body of checkDev: what sets hasVerifiedDev for one creator.
SetsVerifiedDev(c) == c.twitterUsername # "" \/ c.provider \in {"github", "twitter"}

\* checkDev (dev-checker <mint>)
checkDev ==
    /\ dev.pc = "idle"
    /\ \E sdk \in {"ok", "throws"} :
          dev' = IF sdk = "throws"
                 THEN [NoDev EXCEPT !.tool = "dev-checker", !.pc = "error"]
                 ELSE IF Len(creators) = 0
                 THEN [NoDev EXCEPT !.tool = "dev-checker", !.pc = "done", !.verdict = "AVOID"]
                 ELSE LET hasVerifiedDev == \E k \in 1..Len(creators) : SetsVerifiedDev(creators[k])
                      IN  [tool |-> "dev-checker", pc |-> "done", lookup |-> "none",
                           verified |-> hasVerifiedDev,
                           creators |-> creators,
                           verdict |-> IF hasVerifiedDev THEN "DEV VERIFIED" ELSE "UNVERIFIED"]
    /\ UNCHANGED <<gateVars, execVars, bookVars, chainVars, creators, perfVars>>

DevNext == verifyDev \/ checkDev

(***************************************************************************)
(* Performance analyzer: src/scripts/performance.ts.  Amounts are in        *)
(* hundredths of SOL; a closed trade carries the fields the analyzer reads. *)
(***************************************************************************)

Pnls == {-20, 0, 10, 30}
\* Each trade cost 0.50 SOL: realized = costBasis + pnl, pnlPct = pnl / costBasis.
ClosedPositions ==
    { [pnl |-> x, costBasis |-> 50, realized |-> 50 + x, pnlPct |-> 2 * x] : x \in Pnls }
MaxClosed == 3
ClosedLogs == UNION { [1..n -> ClosedPositions] : n \in 0..MaxClosed }

NoPerf ==
    [pc |-> "idle", returned |-> FALSE, totalTrades |-> 0, winCount |-> 0, lossCount |-> 0,
     totalPnL |-> 0, totalWins |-> 0, totalLosses |-> 0, bestPct |-> 0, worstPct |-> 0,
     totalDeployed |-> 0, totalRealized |-> 0, openPositions |-> 0, openCapital |-> 0]

IdlePerf == closed = << >> /\ perf = NoPerf

IsWin(t) == t.pnl > 0

\* closed.filter((t) => t.pnl > 0)
Wins(ts) == SelectSeq(ts, IsWin)

IsLossStrict(t) == t.pnl < 0
IsLoss(t) == t.pnl <= 0

\* Mutant: a trade that broke even is not a loss.
LossesStrict(ts) == SelectSeq(ts, IsLossStrict)

\* closed.filter((t) => t.pnl <= 0)
Losses(ts) == SelectSeq(ts, IsLoss)

\* ts.reduce((sum, t) => sum + t[field], 0)
Reduce(ts, field) ==
    LET sum[k \in 0..Len(ts)] == IF k = 0 THEN 0 ELSE sum[k - 1] + ts[k][field]
    IN  sum[Len(ts)]

Abs(x) == IF x < 0 THEN 0 - x ELSE x

\* closed.reduce((best, t) => (t.pnlPct > best.pnlPct ? t : best), closed[0])
BestTrade(ts) ==
    LET best[k \in 1..Len(ts)] ==
            IF k = 1 THEN ts[1]
            ELSE IF ts[k].pnlPct > best[k - 1].pnlPct THEN ts[k] ELSE best[k - 1]
    IN  best[Len(ts)]

WorstTrade(ts) ==
    LET worst[k \in 1..Len(ts)] ==
            IF k = 1 THEN ts[1]
            ELSE IF ts[k].pnlPct < worst[k - 1].pnlPct THEN ts[k] ELSE worst[k - 1]
    IN  worst[Len(ts)]

\* analyzePerformance: reads watchlist.json, returns nothing when no trade was
\* closed, the statistics otherwise.  It writes no file.
analyzePerformance ==
    /\ perf.pc = "idle"
    /\ perf' = IF Len(closed) = 0
               THEN [perf EXCEPT !.pc = "done"]
               ELSE LET wins == Wins(closed)
                        losses == Losses(closed)
                    IN  [pc |-> "done", returned |-> TRUE,
                         totalTrades |-> Len(closed),
                         winCount |-> Len(wins),
                         lossCount |-> Len(losses),
                         totalPnL |-> Reduce(closed, "pnl"),
                         totalWins |-> Reduce(wins, "pnl"),
                         totalLosses |-> Abs(Reduce(losses, "pnl")),
                         bestPct |-> BestTrade(closed).pnlPct,
                         worstPct |-> WorstTrade(closed).pnlPct,
                         totalDeployed |-> Reduce(closed, "costBasis"),
                         totalRealized |-> Reduce(closed, "realized"),
                         openPositions |-> Len(watchlist),
                         openCapital |-> Reduce(watchlist, "costBasis")]
    /\ UNCHANGED <<gateVars, execVars, bookVars, chainVars, devVars, closed>>

(***************************************************************************)
(* Specifications                                                          *)
(***************************************************************************)

\* The checklist alone, over every input.
GateOnlyInit == GateInit /\ ExecInit /\ NoBookInit /\ ChainInit /\ IdleDev /\ IdlePerf
SpecGate == GateOnlyInit /\ [][GateNext]_vars

\* The sell programs alone.
IdleGate ==
    /\ mint = [endsBags |-> TRUE]
    /\ market = Healthy
    /\ devInfo = [verified |-> TRUE]
    /\ entryAmount = 25
    /\ hour = 12
    /\ version = "none"
    /\ gatePc = "idle"
    /\ checks = << >>
    /\ verdict = "NONE"

ExecOnlyInit == IdleGate /\ ExecInit /\ NoBookInit /\ ChainInit /\ IdleDev /\ IdlePerf
SpecExec == ExecOnlyInit /\ [][ExecNext]_vars

\* The position tools alone, over a watchlist of up to MaxPositions positions.
BookOnlyInit == IdleGate /\ ExecInit /\ BookInit /\ ChainInit /\ IdleDev /\ IdlePerf
SpecBook == BookOnlyInit /\ [][BookNext]_vars

\* One trade intent end to end: the checklist is run on it, and then (as the tools'
\* documentation prescribes: checklist before every trade) a sell program may be
\* started.  No program reads the checklist's output.
TradeIntents ==
    { [mint |-> [endsBags |-> TRUE], market |-> Healthy,
       devInfo |-> [verified |-> TRUE], entryAmount |-> 20],
      [mint |-> [endsBags |-> TRUE], market |-> [Healthy EXCEPT !.h1 = 150],
       devInfo |-> [verified |-> FALSE], entryAmount |-> 20],
      [mint |-> [endsBags |-> TRUE], market |-> [Healthy EXCEPT !.volH24 = 1000, !.mcap = 20000],
       devInfo |-> [verified |-> TRUE], entryAmount |-> 20],
      [mint |-> [endsBags |-> FALSE], market |-> NoData,
       devInfo |-> [verified |-> FALSE], entryAmount |-> 150] }

TradeInit ==
    /\ \E t \in TradeIntents :
          /\ mint = t.mint
          /\ market = t.market
          /\ devInfo = t.devInfo
          /\ entryAmount = t.entryAmount
    /\ hour \in Hours
    /\ version = "none"
    /\ gatePc = "idle"
    /\ checks = << >>
    /\ verdict = "NONE"
    /\ ExecInit
    /\ NoBookInit
    /\ ChainInit
    /\ IdleDev
    /\ IdlePerf

TradeNext ==
    \/ GateNext
    \/ gatePc # "idle" /\ ExecNext

SpecTrade == TradeInit /\ [][TradeNext]_vars

\* The partial take-profit script run on the ENDLESS position, any number of
\* times: the position is in watchlist.json with the amount opened.
CloseInit ==
    /\ IdleGate
    /\ ExecInit
    /\ ChainInit
    /\ IdleDev
    /\ IdlePerf
    /\ watchlist = << [symbol |-> "ENDLESS", tokens |-> OpenedTokens, costBasis |-> 50,
                       entryPrice |-> 1, notes |-> ""] >>
    /\ feeds \in [1..1 -> Feeds]
    /\ book = NoBook

StartTakeProfit == Invoke /\ run'.script = "take-profit"

\* The script is a standalone program: once it has ended it can be started again.
RunAgain ==
    /\ run.pc = "done"
    /\ run' = NoRun
    /\ UNCHANGED <<gateVars, bookVars, chainVars, devVars, perfVars>>

CloseNext ==
    \/ StartTakeProfit
    \/ TakeProfitQuote \/ TakeProfitBuild \/ TakeProfitSign \/ TakeProfitSimulate
    \/ TakeProfitSend \/ TakeProfitConfirm
    \/ RunAgain

SpecClose == CloseInit /\ [][CloseNext]_vars

\* The position tools running while the take-profit script sells part of the
\* ENDLESS position: separate processes over the same wallet and watchlist.
PortfolioInit ==
    /\ CloseInit
    /\ feeds[1].hasPair /\ feeds[1].quote.ok

PortfolioNext ==
    \/ StartTakeProfit
    \/ TakeProfitQuote \/ TakeProfitBuild \/ TakeProfitSign \/ TakeProfitSimulate
    \/ TakeProfitSend \/ TakeProfitConfirm
    \/ BookNext

SpecPortfolio == PortfolioInit /\ [][PortfolioNext]_vars

\* The performance analyzer alone, over every log of closed trades, with no or
\* one open position.
PerfInit ==
    /\ IdleGate
    /\ ExecInit
    /\ watchlist \in {<< >>} \cup {<<p>> : p \in Positions}
    /\ feeds = << >>
    /\ book = NoBook
    /\ ChainInit
    /\ IdleDev
    /\ closed \in ClosedLogs
    /\ perf = NoPerf

PerfNext == analyzePerformance

SpecPerf == PerfInit /\ [][PerfNext]_vars

\* The creator verifications alone, over every creator list.
DevInit ==
    /\ IdleGate
    /\ ExecInit
    /\ NoBookInit
    /\ ChainInit
    /\ creators \in CreatorLists
    /\ dev = NoDev
    /\ IdlePerf

SpecDev == DevInit /\ [][DevNext]_vars

\* Checklist V2 with its call of verifyDev: runChecklist awaits getTokenData and
\* verifyDev together, and devInfo is what verifyDev returned.
VerifyInit ==
    /\ mint \in [endsBags : BOOLEAN]
    /\ market \in {Healthy, NoData}
    /\ devInfo \in [verified : BOOLEAN]
    /\ entryAmount \in {25, 150}
    /\ hour = 12
    /\ version = "none" /\ gatePc = "idle" /\ checks = << >> /\ verdict = "NONE"
    /\ ExecInit
    /\ NoBookInit
    /\ ChainInit
    /\ creators \in {cs \in CreatorLists : \A k \in 1..Len(cs) : cs[k].provider = ""}
    /\ dev = NoDev
    /\ IdlePerf

AwaitedDevInfo ==
    /\ dev.tool = "verifyDev" /\ dev.pc = "done"
    /\ devInfo.verified = dev.verified

VerifyNext ==
    \/ verifyDev
    \/ AwaitedDevInfo /\ RunChecklistV2

SpecVerify == VerifyInit /\ [][VerifyNext]_vars

(***************************************************************************)
(* Claims                                                                  *)
(***************************************************************************)

Failing(c) == ~c.status

\* A check the summary counts as a critical failure.
CriticalFailed ==
    \E k \in 1..Len(checks) :
        IF version = "v2" THEN IsCriticalFail(checks[k]) ELSE IsFailV1(checks[k])

\* A sell program has got as far as holding a transaction.
PipelineInvoked == run.script # "none"

\* C1 (as claimed): if a critical check of the checklist fails, the verdict is BLOCK
\* and no sell program is run for the intent (nothing is built, signed or sent).
\* The programs never read the verdict, so this fails.
C1_BlockedNeverExecutes ==
    (gatePc = "done" /\ CriticalFailed) =>
        /\ verdict = "BLOCK"
        /\ ~PipelineInvoked
        /\ run.tx = NoTx
        /\ run.sig = 0

FullSequence == <<"QUOTED", "BUILT", "SIGNED", "SIMULATED", "BROADCAST", "CONFIRMED">>

\* C3 (as claimed): an attempt is CONFIRMED only after QUOTED, BUILT, SIGNED,
\* SIMULATED and BROADCAST, in this order.  Only the take-profit script simulates.
C3_ConfirmedOnlyViaFullSequence ==
    (Len(run.trace) > 0 /\ run.trace[Len(run.trace)] = "CONFIRMED") =>
        run.trace = FullSequence

\* C4 (as claimed): a transaction is sent only after a simulation that reported
\* no error.
C4_BroadcastOnlyAfterSimulation ==
    run.sig # 0 => run.sim = "ok"

\* C5 (as claimed): a sale is reported only when the confirmation answered
\* without an on-chain error.
C5_FillOnlyIfConfirmed ==
    run.report = "fill" => run.outcome = "ok"

\* C6: swapWithRetry calls swap at most maxRetries (3) times, so at most 3
\* automatic retries are made; when the last allowed attempt has expired too,
\* the run ends with the error 'Max retries exceeded' thrown to the caller.
C6_RetriesBounded ==
    run.script = "swapWithRetry" =>
        /\ run.attempts <= MaxRetries
        /\ run.i <= MaxRetries
        /\ Len(run.usedQuotes) <= MaxRetries
        /\ (run.i = MaxRetries /\ run.pc # "loop") =>
              /\ run.pc = "done"
              /\ run.report = "failed"
              /\ run.error = "Max retries exceeded"

\* C6 witness: three attempts expired and the run ended in the terminal error.
C6_Witness ==
    /\ run.script = "swapWithRetry"
    /\ run.attempts = MaxRetries
    /\ run.pc = "done"
    /\ run.error = "Max retries exceeded"

\* C7 (as claimed): an attempt that failed for a reason other than expiry (here:
\* the transaction failed on chain, or an error other than BlockhashNotFound was
\* thrown) ends the run with a failure reported to the caller.  swap() drops the
\* confirmation result, so an on-chain failure is returned as a success.
C7_OtherFailuresSurfaced ==
    (run.script \in {"swapWithRetry", "execute-sell"} /\ run.pc = "done"
        /\ run.outcome \in {"err", "timeout", "rpcerror"}) =>
        run.report = "failed"

\* C8: in swapWithRetry every attempt, the first and every retry, requests its
\* own quote and builds and signs its transaction from that quote: quotes are
\* never reused across attempts, and past the quote step the quote held is the
\* one requested in the current attempt.
C8_RetryRestartsFromQuote ==
    run.script = "swapWithRetry" =>
        /\ \A a, b \in 1..Len(run.usedQuotes) :
              a # b => run.usedQuotes[a] # run.usedQuotes[b]
        /\ run.pc \in {"build", "sign", "send", "confirm"} =>
              /\ Len(run.usedQuotes) = run.attempts
              /\ run.quote.id = run.usedQuotes[run.attempts]
        /\ run.tx # NoTx => run.tx.fromQuote = run.quote.id
        /\ (run.pc = "quote" /\ run.attempts > 0) =>
              (run.quote = NoQuote /\ run.tx = NoTx /\ run.trace = << >>)

\* C8 witness: the second attempt has signed a transaction built from the
\* second quote.
C8_Witness ==
    /\ run.script = "swapWithRetry"
    /\ run.attempts = 2
    /\ run.tx.signed
    /\ run.tx.fromQuote = 2
    /\ run.quote.id = 2

\* C9 (as claimed): nothing is signed from a quote whose price impact is above
\* the ceiling.  Only sell-token compares the impact with a ceiling.
C9_NoSignAboveImpactCeiling ==
    run.tx.signed => (run.quote.valid /\ NumLE(run.quote.impact, PriceImpactCeiling))

ResultFor(sym) == CHOOSE r \in { book.results[k] : k \in 1..Len(book.results) } : r.symbol = sym
HasResult(j) == \E k \in 1..Len(book.results) : book.results[k].symbol = watchlist[j].symbol

\* The snapshot of position j has no liquidity field while the quote for its
\* whole size is given with an impact of at most 0.3%.
AcceptableImpact == 30
NullLiquidityButExitable(j) ==
    /\ feeds[j].hasPair
    /\ ~feeds[j].liquidity.present
    /\ feeds[j].quote.ok
    /\ feeds[j].quote.priceImpact <= AcceptableImpact

\* C10 (as claimed): a position whose snapshot has no liquidity field and whose
\* full-size exit quote shows an acceptable price impact is never reported as
\* stranded, by either tool.  liquidity-check reads the absent field as 0.
C10_NullLiquidityNotStranded ==
    \A j \in 1..Len(watchlist) :
        NullLiquidityButExitable(j) =>
            /\ (book.tool \in {"liquidity-check", "position-value-tracker"} /\ HasResult(j)) =>
                  ResultFor(watchlist[j].symbol).status # "STRANDED"
            /\ book.tool = "getStrandedPositions" =>
                  \A k \in 1..Len(book.names) : book.names[k] # watchlist[j].symbol

SumSeq(q) ==
    LET sum[k \in 0..Len(q)] == IF k = 0 THEN 0 ELSE sum[k - 1] + q[k]
    IN  sum[Len(q)]

\* C11 (as claimed): the amount the position record holds is the amount opened
\* minus the amounts sold by partial closes, it is never negative, and the
\* amounts sold never add up to more than the amount opened.  No program writes
\* watchlist.json, so the record keeps the opened amount after a partial sale.
C11_RemainingIsOpenedMinusClosed ==
    \A j \in 1..Len(watchlist) :
        watchlist[j].symbol = "ENDLESS" =>
            /\ watchlist[j].tokens = OpenedTokens - SumSeq(chain.sold)
            /\ watchlist[j].tokens >= 0
            /\ SumSeq(chain.sold) <= OpenedTokens

\* The fractional P&L of position j from the live exit quote is at or below
\* the stop-loss threshold.
QuoteAtStopLoss(j) ==
    /\ feeds[j].quote.ok
    /\ PctLE(Pct(feeds[j].quote.outSol, watchlist[j].costBasis), StopLoss)

Named(sym) == \E k \in 1..Len(book.names) : book.names[k] = sym

\* C12 (as claimed): a stop-loss check that has looked at a position whose P&L
\* from the live exit quote is at or below the threshold reports the stop loss
\* for it.  checkStopLosses computes the P&L from the listed spot price instead.
C12_StopLossFromExitQuote ==
    \A j \in 1..Len(watchlist) :
        (/\ QuoteAtStopLoss(j)
         /\ \/ (book.tool = "checkStopLosses" /\ HasResult(j))
            \/ (book.tool = "stop-loss-check" /\ book.pc = "done" /\ book.k = j))
        => Named(watchlist[j].symbol)

Reevaluators == {"position-value-tracker", "getPortfolioValue"}

\* C13: no step of checkPositionValues or getPortfolioValue changes the stored
\* positions, starts or advances a sell program (quote for a sale, build, sign,
\* send), or moves tokens on chain.
C13_ReevaluationHasNoEffect ==
    [][book'.tool \in Reevaluators =>
          (watchlist' = watchlist /\ run' = run /\ chain' = chain)]_vars

\* C13 witness: the tracker has valued every position, one of them at a loss or
\* without a quote, and no sell program was started.
C13_Witness ==
    /\ book.tool = "position-value-tracker"
    /\ book.pc = "done"
    /\ Len(book.results) = Len(watchlist)
    /\ \E k \in 1..Len(book.results) : book.results[k].status \in {"LOSS", "ERROR"}
    /\ run = NoRun

\* C20 (as claimed): a quote request answered 'rate limited' is not repeated by
\* getSellQuote itself.  It sleeps 2 s and calls itself again, without a limit.
C20_RateLimitedNotRetried ==
    book.waits = 0

CheckNamed(n) == CHOOSE c \in { checks[k] : k \in 1..Len(checks) } : c.name = n

\* C14 (as claimed): the verdict is a function of the mint, the snapshot, the
\* verification result and the amount: evaluated at any other hour the same
\* input gives the same verdict.  The legacy checklist reads the clock.
C14_VerdictIndependentOfClock ==
    gatePc = "done" =>
        \A h \in Hours :
            verdict = IF version = "v2"
                      THEN SummaryV2(ChecksV2(mint, market, devInfo, entryAmount))
                      ELSE SummaryV1(ChecksV1(h, mint, market, entryAmount))

ExtremeSkew == RatioGT(market.txH24, 10, 1)

\* C15 (as claimed), for checklist V2: with a 24h buy/sell ratio above 10:1 an
\* unverified creator gives BLOCK, a verified creator a verdict that is not
\* ALLOW, and the ratio check is a critical failure only without verification.
\* V2 lets the verified case pass without any warning.
C15_SkewNeedsUnverifiedToBlock ==
    (gatePc = "done" /\ version = "v2" /\ ExtremeSkew) =>
        /\ ~devInfo.verified => verdict = "BLOCK"
        /\ devInfo.verified =>
              /\ ~IsCriticalFail(CheckNamed("Buy/Sell Ratio"))
              /\ verdict # "ALLOW"

\* C16 (as claimed), for checklist V2: a 1h change above 100% gives BLOCK with
\* the pump check as a critical failure; a 1h change above 50% and at most 100%
\* never gives ALLOW.  V2 keeps the moderate case as a passed check.
C16_MomentumGuard ==
    (gatePc = "done" /\ version = "v2") =>
        /\ market.h1 > 100 =>
              (verdict = "BLOCK" /\ IsCriticalFail(CheckNamed("H1 Pump Check")))
        /\ (market.h1 > 50 /\ market.h1 <= 100) => verdict # "ALLOW"

\* C17: the M5 Momentum check fails only when the 5 minute buy/sell ratio is
\* below 0.8 and the 5 minute price change is below -5%; it is a critical
\* failure exactly when the ratio is below 0.5 and the change below -5%; with a
\* price that is not falling, or with a ratio of at least 0.8, it passes.
C17_DumpNeedsBothConditions ==
    (gatePc = "done" /\ version = "v2") =>
        LET c == CheckNamed("M5 Momentum")
        IN  /\ ~c.status => (RatioLT(market.txM5, 4, 5) /\ market.m5 < -5)
            /\ IsCriticalFail(c) <=> (RatioLT(market.txM5, 1, 2) /\ market.m5 < -5)
            /\ market.m5 >= 0 => c.status
            /\ ~RatioLT(market.txM5, 4, 5) => c.status

\* C17 witness: sells outnumber buys 5 to 2 while the price fell 7%: the check
\* failed as critical.
C17_Witness ==
    /\ gatePc = "done" /\ version = "v2"
    /\ RatioLT(market.txM5, 1, 2) /\ market.m5 < -5
    /\ IsCriticalFail(CheckNamed("M5 Momentum"))

InBounds(a) == a # NaN /\ a >= 20 /\ a <= 100

\* C18: when a checklist has run its checks, an amount that parses to a number
\* outside [0.2, 1.0] SOL or to NaN gives BLOCK, and an amount inside the bounds
\* passes the Position Size check.
C18_SizeOutOfBoundsBlocks ==
    gatePc = "done" =>
        /\ ~InBounds(entryAmount) => verdict = "BLOCK"
        /\ InBounds(entryAmount) => CheckNamed("Position Size").status

\* C18 witness: the amount is not a number, every other check passed, and the
\* verdict is BLOCK.
C18_Witness ==
    /\ gatePc = "done" /\ version = "v2"
    /\ entryAmount = NaN
    /\ verdict = "BLOCK"
    /\ \A k \in 1..Len(checks) : checks[k].name # "Position Size" => checks[k].status

HasHandle(c) == c.twitterUsername # "" \/ c.githubUsername # ""

\* C19 (as claimed): a completed creator verification is verified exactly when
\* some entry of the creator list it obtained carries a twitter or github
\* handle; with an empty list it is unverified.  verifyDev does this; the
\* dev-checker command decides on the twitter handle and the provider field.
C19_VerifiedIffSomeHandle ==
    dev.pc = "done" =>
        /\ dev.verified <=> \E k \in 1..Len(dev.creators) : HasHandle(dev.creators[k])
        /\ Len(dev.creators) = 0 => ~dev.verified

InTrace(st) == \E k \in 1..Len(run.trace) : run.trace[k] = st

\* C21 (as claimed): a run that reports a confirmed sale has printed the
\* signature, and the amount it reports as received is the amount the confirmed
\* transaction delivered.  The programs report the quote's outAmount.
C21_ReportsRealizedOutput ==
    (run.report = "fill" /\ run.outcome = "ok") =>
        /\ "sig" \in run.logged
        /\ run.received = run.delivered

\* C22 (as claimed): a confirmation wait that ran out (timeout, block height
\* exceeded) leaves the attempt EXPIRED, not FAILED, and the run is not ended
\* with a failure report.  Every program treats it as any other thrown error.
C22_TimeoutIsExpired ==
    run.outcome = "timeout" =>
        /\ run.trace[Len(run.trace)] = "EXPIRED"
        /\ run.report # "failed"

\* The quote request or the build request answered with a failure body.
StageFailed ==
    \/ run.quote.id # 0 /\ ~run.quote.valid
    \/ run.tx.payload = "undefined"

\* C26 (as claimed): a failed stage stops the pipeline.  After a FAILED the run
\* is over and nothing follows it; a failure before the signing leaves no
\* signed transaction; a failure before the broadcast leaves no signature;
\* after a failure body of the quote or build service nothing is signed or
\* sent, and the run, once over, has reported a failure.  sell-creacher-now
\* reads no success flag and its swap request does not depend on the quote.
C26_FailureStopsPipeline ==
    /\ \A k \in 1..Len(run.trace) :
          run.trace[k] = "FAILED" => (k = Len(run.trace) /\ run.pc = "done"
                                      /\ run.report = "failed")
    /\ (InTrace("FAILED") /\ ~InTrace("SIGNED")) => (~run.tx.signed /\ run.sig = 0)
    /\ (InTrace("FAILED") /\ ~InTrace("BROADCAST")) => run.sig = 0
    /\ StageFailed => (~run.tx.signed /\ run.sig = 0 /\ ~InTrace("BROADCAST"))
    /\ (StageFailed /\ run.pc = "done") => run.report = "failed"

\* C27 (as claimed): once a transaction has been broadcast, its signature has
\* been printed before the confirmation wait begins, hence whatever the wait
\* gives.  swap() prints the signature only after a successful wait.
C27_SignaturePrintedBeforeWait ==
    run.sig # 0 => "sig" \in run.logged

\* C28 (as claimed): the validity window the confirmation wait uses is that of
\* the blockhash the broadcast transaction was built with.  The programs fetch
\* the latest blockhash after the send.
C28_WaitUsesWindowOfTransaction ==
    run.wait # 0 => run.wait = run.tx.blockhash

\* C24: when no market data could be fetched for the token, the checklist that
\* ran has aborted and printed no verdict, whatever the verification result and
\* the amount are.
C24_NoDataNoVerdict ==
    (market = NoData /\ gatePc # "idle") =>
        /\ gatePc = "aborted"
        /\ verdict = "NONE"

\* C24 witness: checklist V2 was run for a token with a verified creator and an
\* amount within bounds, and no market data: it aborted.
C24_Witness ==
    /\ market = NoData /\ version = "v2" /\ gatePc = "aborted"
    /\ devInfo.verified /\ InBounds(entryAmount)
    /\ verdict = "NONE"

LookupFailed == dev.tool = "verifyDev" /\ dev.lookup \in {"rejected", "failed"}

\* C25: when the creator lookup of verifyDev failed (the creators call was
\* rejected, or the SDK path and the fallback both threw), the result is
\* unverified, a checklist that completes on it gives BLOCK, and no verdict
\* other than BLOCK is ever printed.
C25_VerificationFailsClosed ==
    LookupFailed =>
        /\ ~dev.verified
        /\ gatePc = "done" => verdict = "BLOCK"
        /\ verdict \notin {"ALLOW", "WARN"}

\* C25 witness: the token has a creator with a handle and passes every other
\* check, the lookup failed, and the checklist gave BLOCK.
C25_Witness ==
    /\ LookupFailed
    /\ \E k \in 1..Len(creators) : HasHandle(creators[k])
    /\ gatePc = "done" /\ verdict = "BLOCK"
    /\ \A k \in 1..Len(checks) : checks[k].name # "Dev Verification" => checks[k].status

CostBases == [j \in 1..Len(watchlist) |-> watchlist[j].costBasis]

\* C29 (as claimed): when the position value tracker (or getPortfolioValue) has
\* finished, the total cost basis it reports is the sum of the cost bases of all
\* positions of the watchlist, and it reports one row per position.  The cost
\* basis of a position is added only when its quote was obtained.
C29_TotalsCoverEveryPosition ==
    (book.tool \in Reevaluators /\ book.pc = "done") =>
        /\ book.totalCostBasis = SumSeq(CostBases)
        /\ book.tool = "position-value-tracker" => Len(book.results) = Len(watchlist)

\* A reevaluation handles the position book.k in this step.
Reevaluates ==
    /\ book.tool \in Reevaluators /\ book.pc = "loop"
    /\ book.k <= Len(watchlist)
    /\ book'.k = book.k + 1

\* C23 (as claimed): whenever a reevaluation handles a position, the token
\* amount it works with is the amount the wallet holds at that moment: it never
\* values a position whose amount a sale has already reduced.  The reevaluation
\* works on the amounts of watchlist.json as read at its start.
C23_ReevaluationSeesCurrentPosition ==
    [][Reevaluates => watchlist[book.k].tokens = chain.balance]_vars

StatsAddUp ==
    (perf.pc = "done" /\ perf.returned) =>
        /\ perf.totalTrades = Len(closed)
        /\ perf.winCount = Cardinality({k \in 1..Len(closed) : closed[k].pnl > 0})
        /\ perf.lossCount = Cardinality({k \in 1..Len(closed) : closed[k].pnl <= 0})
        /\ perf.winCount + perf.lossCount = perf.totalTrades
        /\ perf.totalPnL = perf.totalWins - perf.totalLosses

\* C30: the statistics the analyzer returns count every closed trade once, as
\* a win when its P&L is above zero and as a loss otherwise, so that wins and
\* losses add up to the number of trades and the total P&L is gross wins minus
\* gross losses; and no step changes the closed trades or the open positions.
C30_EveryTradeCountedOnce ==
    /\ []StatsAddUp
    /\ [][closed' = closed /\ watchlist' = watchlist]_vars

\* C30 witness: a log with a winning, a losing and a break-even trade was
\* analysed: one win, two losses.
C30_Witness ==
    /\ perf.pc = "done" /\ perf.returned
    /\ \E i, j, k \in 1..Len(closed) :
          closed[i].pnl > 0 /\ closed[j].pnl < 0 /\ closed[k].pnl = 0
    /\ perf.winCount = 1 /\ perf.lossCount = 2

====
